---- MODULE Spec2Model ----
(***************************************************************************)
(* The fallback "qualify" page of scholarmap-client: the form state, the   *)
(* asynchronous handleSubmit handler and the rule-based eligibility        *)
(* evaluator it runs over the fetched program catalog.  The AI version of  *)
(* the page declares its state under the same names (form, results,        *)
(* loading, step) and adds error; each specification below runs the        *)
(* handlers of one version of the page.                                    *)
(*                                                                         *)
(* GPA numbers are kept in hundredths (3.75 is 375) so that the JavaScript *)
(* comparisons on them are integer comparisons.                            *)
(***************************************************************************)
EXTENDS Integers, Sequences, FiniteSets, TLC

VARIABLES
    form,          \* useState<FormData>: the profile being edited
    results,       \* useState<{eligible, maybe, not_eligible} | null>
    loading,       \* useState(false)
    step,          \* useState(1)
    pending,       \* handleSubmit invocations suspended at the await, each
                   \* holding the form its closure captured, in the order in
                   \* which their fetches settle; on the AI page the
                   \* runEligibilityCheck invocations suspended at one of
                   \* their two awaits, each with the profile it posted
    lastForm,      \* the form of the handleSubmit invocation that resumed last
    lastPrograms,  \* the program list that invocation received (on the AI
                   \* page the answer the last runEligibilityCheck received)
    lastOutcome,   \* how it ended: none, nodata, rejected, published or thrown
                   \* (succeeded or failed on the AI page)
    repeated,      \* that invocation had the form and the program list of the
                   \* invocation before it
    error,         \* useState<string | null>(null) of the AI page; the fallback
                   \* page has no such state and never writes it
    user,          \* the user of useAuth() on the AI page, or null
    loadingProfile,\* useState(true) of the AI page: the form is rendered once
                   \* it is false
    fromOnboarding,\* the page was opened with ?from=onboarding
    lookups        \* loadProfile invocations suspended at the await of the
                   \* academic_profiles query

\* the state that only loadProfile of the AI page reads or writes
profileVars == <<user, loadingProfile, fromOnboarding, lookups>>

vars == <<form, results, loading, step, pending, lastForm, lastPrograms, lastOutcome,
          repeated, error, profileVars>>

(***************************************************************************)
(* Bounds of the model.                                                    *)
(***************************************************************************)
MaxRules == 2       \* rules per program in a single-program response
MaxPrograms == 2    \* programs in a response drawn from the catalog
MaxInFlight == 2    \* invocations suspended at once when submit events are
                    \* not held back by the button
MaxLookups == 1     \* loadProfile invocations suspended at their query
MaxEdits == 1       \* optional fields of the AI form edited by hand

(***************************************************************************)
(* JSON values.  A rule's value is null, a scalar or an object; an object  *)
(* is a record whose other fields are its properties.                      *)
(***************************************************************************)
Null == [kind |-> "null"]
EmptyObject == [kind |-> "object"]
Scalar == [kind |-> "number"]

\* val.k evaluates without a TypeError unless val is null
Readable(val) == val.kind # "null"

\* val.k is defined
HasProp(val, k) == k \in DOMAIN val

\* Array.prototype.includes
Includes(list, x) == \E i \in 1..Len(list) : list[i] = x

(***************************************************************************)
(* The comparators of the rule loop.  Each yields "match" (matches++),     *)
(* "fail" (fails++) or "throw" (a TypeError leaves the handler).           *)
(***************************************************************************)
gpaMap ==
    ("below_2.5" :> 200) @@ ("2.5_3.0" :> 275) @@ ("3.0_3.5" :> 325) @@
    ("3.5_4.0" :> 375) @@ ("above_4.0" :> 400)

\* mutant: the ?? 0 is missing, and no number is >= undefined
OrUndefined(val, k) == IF HasProp(val, k) THEN val[k] ELSE 100000

\* (val.min as number) ?? 0, (val.years as number) ?? 0
OrZero(val, k) == IF HasProp(val, k) THEN val[k] ELSE 0

\* String.prototype.toLowerCase on the strings of the model
Lower(str) ==
    IF str \in {"Ghana", "GHANA"} THEN "ghana"
    ELSE IF str = "BSc" THEN "bsc"
    ELSE str

\* mutant: the country names are compared in lower case
NationalityInIgnoreCase(f, val) ==
    IF ~Readable(val) THEN "throw"
    ELSE IF HasProp(val, "countries")
              /\ \E i \in 1..Len(val.countries) : Lower(val.countries[i]) = Lower(f.nationality)
         THEN "match" ELSE "fail"

NationalityIn(f, val) ==
    IF ~Readable(val) THEN "throw"
    ELSE IF HasProp(val, "countries") /\ Includes(val.countries, f.nationality)
         THEN "match" ELSE "fail"

\* mutant: > in place of >=
GpaGt(f, val) ==
    IF ~Readable(val) THEN "throw"
    ELSE IF f.gpa_band \in DOMAIN gpaMap /\ gpaMap[f.gpa_band] > OrZero(val, "min")
         THEN "match" ELSE "fail"

\* gpaMap[form.gpa_band] is undefined for a band outside the table, and
\* undefined >= n is false
GpaGe(f, val) ==
    IF ~Readable(val) THEN "throw"
    ELSE IF f.gpa_band \in DOMAIN gpaMap /\ gpaMap[f.gpa_band] >= OrZero(val, "min")
         THEN "match" ELSE "fail"

\* mutant: the degree labels are compared in lower case
DegreeInIgnoreCase(f, val) ==
    IF ~Readable(val) THEN "throw"
    ELSE IF HasProp(val, "degrees")
              /\ \E i \in 1..Len(val.degrees) : Lower(val.degrees[i]) = Lower(f.degree)
         THEN "match" ELSE "fail"

DegreeIn(f, val) ==
    IF ~Readable(val) THEN "throw"
    ELSE IF HasProp(val, "degrees") /\ Includes(val.degrees, f.degree)
         THEN "match" ELSE "fail"

\* mutant: > in place of >=
WorkExperienceGt(f, val) ==
    IF ~Readable(val) THEN "throw"
    ELSE IF f.work_experience_years > OrZero(val, "years")
         THEN "match" ELSE "fail"

WorkExperienceGe(f, val) ==
    IF ~Readable(val) THEN "throw"
    ELSE IF f.work_experience_years >= OrZero(val, "years")
         THEN "match" ELSE "fail"

\* mutant: an unknown rule fails, else fails++
DefaultOutcomeStrict == "fail"

\* the final else branch of the rule loop
DefaultOutcome == "match"

\* mutant: a rule of confidence inferred is not enforced
RuleOutcomeSkipInferred(f, r) ==
    IF r.confidence = "inferred" THEN "match"
    ELSE IF r.rule_type = "nationality" /\ r.operator = "in" THEN NationalityIn(f, r.value)
    ELSE IF r.rule_type = "gpa" /\ r.operator = ">=" THEN GpaGe(f, r.value)
    ELSE IF r.rule_type = "degree" /\ r.operator = "in" THEN DegreeIn(f, r.value)
    ELSE IF r.rule_type = "work_experience" /\ r.operator = ">=" THEN WorkExperienceGe(f, r.value)
    ELSE DefaultOutcome

RuleOutcome(f, r) ==
    IF r.rule_type = "nationality" /\ r.operator = "in" THEN NationalityIn(f, r.value)
    ELSE IF r.rule_type = "gpa" /\ r.operator = ">=" THEN GpaGe(f, r.value)
    ELSE IF r.rule_type = "degree" /\ r.operator = "in" THEN DegreeIn(f, r.value)
    ELSE IF r.rule_type = "work_experience" /\ r.operator = ">=" THEN WorkExperienceGe(f, r.value)
    ELSE DefaultOutcome

(***************************************************************************)
(* The rule loop of one program: c carries matches and fails, and thrown   *)
(* once a comparator has thrown (the remaining rules are not evaluated).   *)
(***************************************************************************)
\* mutant: the final else is missing, so a rule that none of the four
\* branches takes increments neither counter
RECURSIVE CountRulesSkipUnknown(_, _, _)
CountRulesSkipUnknown(f, rules, c) ==
    IF rules = <<>> THEN c
    ELSE LET r == Head(rules)
             o == RuleOutcome(f, r) IN
         IF <<r.rule_type, r.operator>> \notin
                { <<"nationality", "in">>, <<"gpa", ">=">>, <<"degree", "in">>,
                  <<"work_experience", ">=">> }
         THEN CountRulesSkipUnknown(f, Tail(rules), c)
         ELSE IF o = "throw" THEN [c EXCEPT !.thrown = TRUE]
         ELSE IF o = "match"
              THEN CountRulesSkipUnknown(f, Tail(rules), [c EXCEPT !.matches = @ + 1])
              ELSE CountRulesSkipUnknown(f, Tail(rules), [c EXCEPT !.fails = @ + 1])

RECURSIVE CountRules(_, _, _)
CountRules(f, rules, c) ==
    IF rules = <<>> THEN c
    ELSE LET o == RuleOutcome(f, Head(rules)) IN
         IF o = "throw" THEN [c EXCEPT !.thrown = TRUE]
         ELSE IF o = "match"
              THEN CountRules(f, Tail(rules), [c EXCEPT !.matches = @ + 1])
              ELSE CountRules(f, Tail(rules), [c EXCEPT !.fails = @ + 1])

\* p.eligibility_rules ?? []
RulesOf(p) == IF "eligibility_rules" \in DOMAIN p THEN p.eligibility_rules ELSE <<>>

\* mutant: the eligible test forgets fails
BucketIgnoringFails(matches, fails) ==
    IF matches > 0 THEN "eligible"
    ELSE IF fails > 0 /\ matches > 0 THEN "maybe"
    ELSE "not_eligible"

\* mutant: the maybe test asks for two matches
BucketStrictMaybe(matches, fails) ==
    IF fails = 0 /\ matches > 0 THEN "eligible"
    ELSE IF fails > 0 /\ matches > 1 THEN "maybe"
    ELSE "not_eligible"

\* mutant: the maybe test forgets matches
BucketLooseMaybe(matches, fails) ==
    IF fails = 0 /\ matches > 0 THEN "eligible"
    ELSE IF fails > 0 THEN "maybe"
    ELSE "not_eligible"

\* the bucket assignment after the rule loop
Bucket(matches, fails) ==
    IF fails = 0 /\ matches > 0 THEN "eligible"
    ELSE IF fails > 0 /\ matches > 0 THEN "maybe"
    ELSE "not_eligible"

\* mutant: unshift in place of push
PushFront(b, name, p) == [b EXCEPT ![name] = <<p>> \o @]

Push(b, name, p) == [b EXCEPT ![name] = Append(@, p)]

\* the counters after the rule loops of the given programs, from c on
RECURSIVE CarriedCount(_, _, _)
CarriedCount(f, programs, c) ==
    IF programs = <<>> THEN c
    ELSE CarriedCount(f, Tail(programs), CountRules(f, RulesOf(Head(programs)), c))

\* mutant: matches and fails are declared before the program loop and are
\* not reset from one program to the next
ClassifyProgramCarry(f, p, b) ==
    IF Len(RulesOf(p)) = 0 THEN Push(b, "maybe", p)
    ELSE LET before == CarriedCount(f, b.eligible \o b.maybe \o b.not_eligible,
                                    [matches |-> 0, fails |-> 0, thrown |-> FALSE])
             c == CountRules(f, RulesOf(p), before) IN
         IF c.thrown THEN [b EXCEPT !.thrown = TRUE]
         ELSE Push(b, Bucket(c.matches, c.fails), p)

\* mutant: the continue after maybe.push(p) is missing
ClassifyProgramNoContinue(f, p, b) ==
    LET b1 == IF Len(RulesOf(p)) = 0 THEN Push(b, "maybe", p) ELSE b
        c == CountRules(f, RulesOf(p), [matches |-> 0, fails |-> 0, thrown |-> FALSE]) IN
    IF c.thrown THEN [b1 EXCEPT !.thrown = TRUE]
    ELSE Push(b1, Bucket(c.matches, c.fails), p)

\* mutant: the rules.length === 0 test is missing
ClassifyProgramNoEmptyCheck(f, p, b) ==
    LET c == CountRules(f, RulesOf(p), [matches |-> 0, fails |-> 0, thrown |-> FALSE]) IN
    IF c.thrown THEN [b EXCEPT !.thrown = TRUE]
    ELSE Push(b, Bucket(c.matches, c.fails), p)

\* one iteration of the program loop on the buckets b
ClassifyProgram(f, p, b) ==
    IF Len(RulesOf(p)) = 0 THEN Push(b, "maybe", p)
    ELSE LET c == CountRules(f, RulesOf(p), [matches |-> 0, fails |-> 0, thrown |-> FALSE]) IN
         IF c.thrown THEN [b EXCEPT !.thrown = TRUE]
         ELSE Push(b, Bucket(c.matches, c.fails), p)

RECURSIVE ProgramLoop(_, _, _)
ProgramLoop(f, programs, b) ==
    IF programs = <<>> \/ b.thrown THEN b
    ELSE ProgramLoop(f, Tail(programs), ClassifyProgram(f, Head(programs), b))

EmptyBuckets == [eligible |-> <<>>, maybe |-> <<>>, not_eligible |-> <<>>, thrown |-> FALSE]

\* the synchronous part of handleSubmit after a non-null fetch
Evaluate(f, programs) == ProgramLoop(f, programs, EmptyBuckets)

(***************************************************************************)
(* The page state and its handlers.                                        *)
(***************************************************************************)
InitialForm ==
    [nationality |-> "", degree |-> "", gpa_band |-> "", field |-> "",
     work_experience_years |-> 0]

\* A text is the sequence of its UTF-16 code units ("-3" is <<45, 51>>).
\* The code units trim, parseInt and parseFloat skip: WhiteSpace and
\* LineTerminator of ECMAScript
Whitespace ==
    {9, 10, 11, 12, 13, 32, 160, 5760} \cup (8192..8202) \cup
    {8232, 8233, 8239, 8287, 12288, 65279}

RECURSIVE TrimStart(_)
TrimStart(text) ==
    IF text # <<>> /\ Head(text) \in Whitespace THEN TrimStart(Tail(text)) ELSE text

RECURSIVE TrimEnd(_)
TrimEnd(text) ==
    IF text # <<>> /\ text[Len(text)] \in Whitespace
    THEN TrimEnd(SubSeq(text, 1, Len(text) - 1))
    ELSE text

Trim(text) == TrimEnd(TrimStart(text))

\* text without its first n code units
Drop(text, n) == SubSeq(text, n + 1, Len(text))

\* the code units of "0" to "9"
Digits == 48..57

\* the code units of "+" and "-"
Signs == {43, 45}

\* the digits (as numbers) of the longest prefix of text made of digits
RECURSIVE DigitPrefix(_)
DigitPrefix(text) ==
    IF text = <<>> \/ Head(text) \notin Digits THEN <<>>
    ELSE <<Head(text) - 48>> \o DigitPrefix(Tail(text))

\* the same for the digits of base 16: 0-9, A-F, a-f
RECURSIVE HexPrefix(_)
HexPrefix(text) ==
    IF text = <<>> THEN <<>>
    ELSE IF Head(text) \in Digits THEN <<Head(text) - 48>> \o HexPrefix(Tail(text))
    ELSE IF Head(text) \in 65..70 THEN <<Head(text) - 55>> \o HexPrefix(Tail(text))
    ELSE IF Head(text) \in 97..102 THEN <<Head(text) - 87>> \o HexPrefix(Tail(text))
    ELSE <<>>

\* the number the digits ds write in the base radix, after the number n
RECURSIVE RadixValue(_, _, _)
RadixValue(ds, radix, n) ==
    IF ds = <<>> THEN n ELSE RadixValue(Tail(ds), radix, radix * n + Head(ds))

DigitsValue(ds, n) == RadixValue(ds, 10, n)

NaN == [kind |-> "NaN"]

\* digits without the zeros they start with
RECURSIVE StripStart(_)
StripStart(ds) == IF ds # <<>> /\ Head(ds) = 0 THEN StripStart(Tail(ds)) ELSE ds

\* A number is a double.  Every number of at most ExactDigits decimal digits
\* names a double of its own, and every whole number of at most ExactDigits
\* decimal digits or ExactHexDigits digits of base 16 is a double.
ExactDigits == 15
ExactHexDigits == 13

\* what parseInt reads of a text: leading white space is skipped, then an
\* optional sign, then the digits up to the first code unit that is not
\* one, in base 16 after the prefix 0x or 0X and in base 10 otherwise
IntegerPart(text) ==
    LET trimmed == TrimStart(text)
        signed == trimmed # <<>> /\ Head(trimmed) \in Signs
        body == IF signed THEN Tail(trimmed) ELSE trimmed
        hex == Len(body) >= 2 /\ body[1] = 48 /\ body[2] \in {88, 120}
    IN  [negative |-> signed /\ Head(trimmed) = 45,
         radix |-> IF hex THEN 16 ELSE 10,
         digits |-> IF hex THEN HexPrefix(Drop(body, 2)) ELSE DigitPrefix(body)]

\* parseInt: NaN when there is no digit, and otherwise the number the
\* digits write when that number is a double.  A longer number is rounded
\* to a double by the code: it is outside this definition, which has no
\* value for it.
ParseInt(text) ==
    LET part == IntegerPart(text)
        n == RadixValue(part.digits, part.radix, 0)
        exact == Len(StripStart(part.digits))
                     <= (IF part.radix = 16 THEN ExactHexDigits ELSE ExactDigits)
    IN  CASE part.digits = <<>> -> NaN
          [] part.digits # <<>> /\ exact -> IF part.negative THEN 0 - n ELSE n

\* parseInt(e.target.value) || 0: NaN and 0 are falsy
ParseIntOrZero(text) ==
    IF IntegerPart(text).digits = <<>> THEN 0 ELSE ParseInt(text)

\* onChange of the nationality input (step 1)
SetNationality(v) ==
    /\ step = 1
    /\ form' = [form EXCEPT !.nationality = v]
    /\ UNCHANGED <<results, loading, step, pending, lastForm, lastPrograms, lastOutcome, repeated, error, profileVars>>

\* onChange of the field input (step 1)
SetField(v) ==
    /\ step = 1
    /\ form' = [form EXCEPT !.field = v]
    /\ UNCHANGED <<results, loading, step, pending, lastForm, lastPrograms, lastOutcome, repeated, error, profileVars>>

\* onChange of the work experience input (step 1)
SetWorkExperience(text) ==
    /\ step = 1
    /\ form' = [form EXCEPT !.work_experience_years = ParseIntOrZero(text)]
    /\ UNCHANGED <<results, loading, step, pending, lastForm, lastPrograms, lastOutcome, repeated, error, profileVars>>

\* onClick of a degree button (step 2)
SetDegree(d) ==
    /\ step = 2
    /\ form' = [form EXCEPT !.degree = d]
    /\ UNCHANGED <<results, loading, step, pending, lastForm, lastPrograms, lastOutcome, repeated, error, profileVars>>

\* onClick of a GPA range button (step 2)
SetGpaBand(g) ==
    /\ step = 2
    /\ form' = [form EXCEPT !.gpa_band = g]
    /\ UNCHANGED <<results, loading, step, pending, lastForm, lastPrograms, lastOutcome, repeated, error, profileVars>>

\* the step indicator, Continue and Back buttons
SetStep(s) ==
    /\ step' = s
    /\ UNCHANGED <<form, results, loading, pending, lastForm, lastPrograms, lastOutcome, repeated, error, profileVars>>

\* handleSubmit up to the await: the submit button is rendered on step 2 and
\* disabled while loading
HandleSubmit ==
    /\ step = 2
    /\ ~loading
    /\ loading' = TRUE
    /\ pending' = Append(pending, form)
    /\ UNCHANGED <<form, results, step, lastForm, lastPrograms, lastOutcome, repeated, error, profileVars>>

\* list with x put in after its first k elements
InsertAt(list, k, x) == SubSeq(list, 1, k) \o <<x>> \o SubSeq(list, k + 1, Len(list))

\* handleSubmit up to the await when the submit event does not come through
\* the button (the handler itself tests neither loading nor step): the new
\* invocation's fetch may settle before or after those already in flight
SubmitEvent ==
    /\ Len(pending) < MaxInFlight
    /\ loading' = TRUE
    /\ \E k \in 0..Len(pending) : pending' = InsertAt(pending, k, form)
    /\ UNCHANGED <<form, results, step, lastForm, lastPrograms, lastOutcome, repeated, error, profileVars>>

\* the last invocation ran the loops, to the end or to a TypeError
Published == lastOutcome = "published"
Finished == lastOutcome \in {"published", "thrown"}

\* mutant: the null check is missing and the loops run on an empty list
FetchNullPublishesEmpty ==
    /\ pending # <<>>
    /\ results' = [eligible |-> <<>>, maybe |-> <<>>, not_eligible |-> <<>>]
    /\ loading' = FALSE
    /\ pending' = Tail(pending)
    /\ lastForm' = Head(pending)
    /\ lastPrograms' = <<>>
    /\ lastOutcome' = "nodata"
    /\ repeated' = FALSE
    /\ UNCHANGED <<form, step, error, profileVars>>

\* the fetch yields no data: setLoading(false) and return
FetchNull ==
    /\ pending # <<>>
    /\ loading' = FALSE
    /\ pending' = Tail(pending)
    /\ lastForm' = Head(pending)
    /\ lastPrograms' = <<>>
    /\ lastOutcome' = "nodata"
    /\ repeated' = FALSE
    /\ UNCHANGED <<form, results, step, error, profileVars>>

\* the awaited query rejects: handleSubmit has no try/catch, so the exception
\* leaves it at the await and nothing after line 47 runs
FetchReject ==
    /\ pending # <<>>
    /\ pending' = Tail(pending)
    /\ lastForm' = Head(pending)
    /\ lastPrograms' = <<>>
    /\ lastOutcome' = "rejected"
    /\ repeated' = FALSE
    /\ UNCHANGED <<form, results, loading, step, error, profileVars>>

\* mutant: the three arrays outlive the invocation, so a later one pushes
\* onto what the earlier one left
FetchResolveAccumulating(programs) ==
    /\ pending # <<>>
    /\ LET start == IF results = Null THEN EmptyBuckets
                    ELSE [eligible |-> results.eligible, maybe |-> results.maybe,
                          not_eligible |-> results.not_eligible, thrown |-> FALSE]
           b == ProgramLoop(Head(pending), programs, start) IN
         IF b.thrown
         THEN /\ lastOutcome' = "thrown"
              /\ UNCHANGED <<results, loading>>
         ELSE /\ lastOutcome' = "published"
              /\ results' = [eligible |-> b.eligible, maybe |-> b.maybe,
                             not_eligible |-> b.not_eligible]
              /\ loading' = FALSE
    /\ pending' = Tail(pending)
    /\ lastForm' = Head(pending)
    /\ lastPrograms' = programs
    /\ repeated' = (Finished /\ Head(pending) = lastForm /\ programs = lastPrograms)
    /\ UNCHANGED <<form, step, error, profileVars>>

\* mutant: the form is reset once the results are published
FetchResolveResetsForm(programs) ==
    /\ pending # <<>>
    /\ LET b == Evaluate(Head(pending), programs) IN
         IF b.thrown
         THEN /\ lastOutcome' = "thrown"
              /\ UNCHANGED <<results, loading, form>>
         ELSE /\ lastOutcome' = "published"
              /\ results' = [eligible |-> b.eligible, maybe |-> b.maybe,
                             not_eligible |-> b.not_eligible]
              /\ loading' = FALSE
              /\ form' = InitialForm
    /\ pending' = Tail(pending)
    /\ lastForm' = Head(pending)
    /\ lastPrograms' = programs
    /\ repeated' = (Finished /\ Head(pending) = lastForm /\ programs = lastPrograms)
    /\ UNCHANGED <<step, error, profileVars>>

\* mutant: the three arrays are declared outside handleSubmit and emptied
\* when it starts, so an invocation that resumes after another one has
\* published since the last submission pushes onto that one's programs
FetchResolveSharedArrays(programs) ==
    /\ pending # <<>>
    /\ LET start == IF ~loading /\ results # Null
                    THEN [eligible |-> results.eligible, maybe |-> results.maybe,
                          not_eligible |-> results.not_eligible, thrown |-> FALSE]
                    ELSE EmptyBuckets
           b == ProgramLoop(Head(pending), programs, start) IN
         IF b.thrown
         THEN /\ lastOutcome' = "thrown"
              /\ UNCHANGED <<results, loading>>
         ELSE /\ lastOutcome' = "published"
              /\ results' = [eligible |-> b.eligible, maybe |-> b.maybe,
                             not_eligible |-> b.not_eligible]
              /\ loading' = FALSE
    /\ pending' = Tail(pending)
    /\ lastForm' = Head(pending)
    /\ lastPrograms' = programs
    /\ repeated' = (Finished /\ Head(pending) = lastForm /\ programs = lastPrograms)
    /\ UNCHANGED <<form, step, error, profileVars>>

\* mutant: the loops run in a try whose finally publishes the arrays as far
\* as they were filled
FetchResolvePublishesPartial(programs) ==
    /\ pending # <<>>
    /\ LET b == Evaluate(Head(pending), programs) IN
         /\ lastOutcome' = IF b.thrown THEN "thrown" ELSE "published"
         /\ results' = [eligible |-> b.eligible, maybe |-> b.maybe,
                        not_eligible |-> b.not_eligible]
         /\ loading' = FALSE
    /\ pending' = Tail(pending)
    /\ lastForm' = Head(pending)
    /\ lastPrograms' = programs
    /\ repeated' = (Finished /\ Head(pending) = lastForm /\ programs = lastPrograms)
    /\ UNCHANGED <<form, step, error, profileVars>>

\* the fetch yields programs: the loops run and, unless a comparator threw,
\* setResults and setLoading(false) follow
FetchResolve(programs) ==
    /\ pending # <<>>
    /\ LET b == Evaluate(Head(pending), programs) IN
         IF b.thrown
         THEN /\ lastOutcome' = "thrown"
              /\ UNCHANGED <<results, loading>>
         ELSE /\ lastOutcome' = "published"
              /\ results' = [eligible |-> b.eligible, maybe |-> b.maybe,
                             not_eligible |-> b.not_eligible]
              /\ loading' = FALSE
    /\ pending' = Tail(pending)
    /\ lastForm' = Head(pending)
    /\ lastPrograms' = programs
    /\ repeated' = (Finished /\ Head(pending) = lastForm /\ programs = lastPrograms)
    /\ UNCHANGED <<form, step, error, profileVars>>

(***************************************************************************)
(* Inputs.                                                                 *)
(***************************************************************************)
Rule(t, o, v) == [rule_type |-> t, operator |-> o, value |-> v, confidence |-> "high"]

Countries(list) == [kind |-> "object", countries |-> list]
Degrees(list) == [kind |-> "object", degrees |-> list]
Min(n) == [kind |-> "object", min |-> n]
Years(n) == [kind |-> "object", years |-> n]

Rules ==
    { Rule("nationality", "in", Countries(<<"Ghana", "Nigeria">>)),
      Rule("nationality", "in", Countries(<<"Kenya">>)),
      Rule("nationality", "in", EmptyObject),
      Rule("nationality", "in", Null),
      Rule("gpa", ">=", Min(350)),
      Rule("gpa", ">=", EmptyObject),
      Rule("degree", "in", Degrees(<<"BSc", "MSc">>)),
      Rule("work_experience", ">=", Years(5)),
      Rule("language", "=", Null),
      Rule("nationality", "not_in", Countries(<<"Ghana">>)) }

SeqsUpTo(S, n) == UNION { [1..k -> S] : k \in 0..n }

\* a fetched row: status is active, eligibility_rules is the joined list
Row(rules) == [status |-> "active", eligibility_rules |-> rules]
RowWithoutRules == [status |-> "active"]

WithId(row, i) == [k \in DOMAIN row \cup {"id"} |-> IF k = "id" THEN i ELSE row[k]]

Numbered(rows) == [i \in 1..Len(rows) |-> WithId(rows[i], i)]

\* the programs A to E of the example scenarios, one with an unreadable
\* rule and one with malformed payloads
CatalogRows ==
    { Row(<<Rule("nationality", "in", Countries(<<"Ghana", "Nigeria">>)), Rule("gpa", ">=", Min(350))>>),
      Row(<<Rule("nationality", "in", Countries(<<"Kenya">>))>>),
      Row(<<Rule("nationality", "in", Countries(<<"Ghana">>)), Rule("work_experience", ">=", Years(5))>>),
      Row(<<>>),
      Row(<<Rule("language", "=", Null)>>),
      Row(<<Rule("nationality", "in", Null)>>),
      Row(<<Rule("degree", "in", Degrees(<<"BSc", "MSc">>)), Rule("nationality", "in", EmptyObject)>>) }

SingleResponses ==
    { <<WithId(Row(rules), 1)>> : rules \in SeqsUpTo(Rules, MaxRules) }
        \cup { <<WithId(RowWithoutRules, 1)>> }

CatalogResponses == { Numbered(rows) : rows \in SeqsUpTo(CatalogRows, MaxPrograms) }

Max(n) == [kind |-> "object", max |-> n]
Between(lo, hi) == [kind |-> "object", min |-> lo, max |-> hi]

\* rules met as the only rule of a program: further payloads of the four
\* comparators, the other gpa operators, lists that differ from the
\* profile's value in case or length only, and lists that hold the empty
\* string
ExtraRules ==
    { Rule("gpa", ">=", Min(325)),
      Rule("degree", "in", EmptyObject),
      Rule("work_experience", ">=", Scalar),
      Rule("gpa", ">", Min(375)),
      Rule("gpa", "<=", Max(300)),
      Rule("gpa", "<", Max(375)),
      Rule("gpa", "between", Between(300, 350)),
      Rule("nationality", "in", Countries(<<"ghana", "GHANA">>)),
      Rule("nationality", "in", Countries(<<"Ghanaian", "Kenya">>)),
      Rule("degree", "in", Degrees(<<"bsc", "BSc (Hons)">>)),
      Rule("nationality", "in", Countries(<<"">>)),
      Rule("degree", "in", Degrees(<<"", "PhD">>)),
      Rule("work_experience", ">=", Years(2)) }

ExtraResponses == { <<WithId(Row(<<r>>), 1)>> : r \in ExtraRules }

Responses == SingleResponses \cup CatalogResponses \cup ExtraResponses

\* the programs table may hold rows of any status
SetStatus(row, status) == [row EXCEPT !.status = status]

MixedTables ==
    { Numbered(<<Row(<<Rule("language", "=", Null)>>),
                 SetStatus(Row(<<Rule("nationality", "in", Countries(<<"Kenya">>))>>), "paused")>>),
      Numbered(<<SetStatus(Row(<<>>), "discontinued"),
                 Row(<<Rule("gpa", ">=", Min(350))>>),
                 SetStatus(Row(<<Rule("nationality", "in", Null)>>), "unknown"),
                 Row(<<>>)>>),
      Numbered(<<SetStatus(Row(<<Rule("degree", "in", Degrees(<<"BSc", "MSc">>))>>), "paused")>>) }

Tables == Responses \cup MixedTables

\* mutant: the .eq("status", "active") filter is missing
ProgramsQueryUnfiltered(table) == table

\* supabase.from("programs").select("*, eligibility_rules(*)").eq("status", "active")
ProgramsQuery(table) == SelectSeq(table, LAMBDA row : row.status = "active")

Nationalities == {"", "Ghana"}
DegreeButtons == {"BSc", "BA", "MSc", "MA", "PhD"}
GpaButtons == {"below_2.5", "2.5_3.0", "3.0_3.5", "3.5_4.0", "above_4.0"}
\* texts of the number input: empty, "5", "-3" and "2.7"
NumberTexts == { <<>>, <<53>>, <<45, 51>>, <<50, 46, 55>> }

EvalForms ==
    [nationality : Nationalities, degree : {"", "BSc"}, gpa_band : GpaButtons \cup {""},
     field : {""}, work_experience_years : {ParseIntOrZero(t) : t \in NumberTexts}]

(***************************************************************************)
(* The page: every handler, on small inputs.                               *)
(***************************************************************************)
PageResponses ==
    { Numbered(<<rows[1], rows[2]>>) : rows \in
        { <<Row(<<>>), Row(<<Rule("nationality", "in", Countries(<<"Ghana">>)), Rule("gpa", ">=", Min(350))>>)>>,
          <<Row(<<Rule("language", "=", Null)>>), Row(<<Rule("nationality", "in", Null)>>)>> } }

\* the fallback page has no useAuth and no loadProfile
NoProfileLookup ==
    /\ user = Null
    /\ loadingProfile = FALSE
    /\ fromOnboarding = FALSE
    /\ lookups = 0

Init ==
    /\ form = InitialForm
    /\ results = Null
    /\ loading = FALSE
    /\ step = 1
    /\ pending = <<>>
    /\ lastForm = InitialForm
    /\ lastPrograms = <<>>
    /\ lastOutcome = "none"
    /\ repeated = FALSE
    /\ error = Null
    /\ NoProfileLookup

Next ==
    \/ \E v \in Nationalities : SetNationality(v)
    \/ \E v \in {"", "Physics"} : SetField(v)
    \/ \E t \in { <<>>, <<53>> } : SetWorkExperience(t)
    \/ \E d \in {"BSc"} : SetDegree(d)
    \/ \E g \in {"3.0_3.5", "3.5_4.0"} : SetGpaBand(g)
    \/ \E s \in {1, 2} : SetStep(s)
    \/ HandleSubmit
    \/ FetchNull
    \/ FetchReject
    \/ \E table \in PageResponses : FetchResolve(ProgramsQuery(table))

Spec == Init /\ [][Next]_vars

(***************************************************************************)
(* Overlapping invocations: submit events reach handleSubmit while earlier *)
(* invocations are still suspended at the await.                           *)
(***************************************************************************)
OverlapBands == {"3.0_3.5", "3.5_4.0"}

OverlapNext ==
    \/ \E g \in OverlapBands : SetGpaBand(g)
    \/ SetStep(2)
    \/ SubmitEvent
    \/ FetchNull
    \/ FetchReject
    \/ \E table \in PageResponses : FetchResolve(ProgramsQuery(table))

OverlapSpec == Init /\ [][OverlapNext]_vars

(***************************************************************************)
(* The evaluator: a submitted profile of EvalForms meets any response of   *)
(* Responses.                                                              *)
(***************************************************************************)
EvalInit ==
    /\ form \in EvalForms
    /\ results = Null
    /\ loading = TRUE
    /\ step = 2
    /\ pending = <<form>>
    /\ lastForm = InitialForm
    /\ lastPrograms = <<>>
    /\ lastOutcome = "none"
    /\ repeated = FALSE
    /\ error = Null
    /\ NoProfileLookup

EvalNext ==
    \/ FetchNull
    \/ \E table \in Tables : FetchResolve(ProgramsQuery(table))

EvalSpec == EvalInit /\ [][EvalNext]_vars

(***************************************************************************)
(* The AI version of the page: loadProfile looks the signed-in user's      *)
(* academic profile up and fills the form with it, runEligibilityCheck     *)
(* posts a profile to the agent and publishes its answer.                  *)
(***************************************************************************)
InitialProfile ==
    [nationality |-> "", age |-> Null, degree |-> "", target_degree |-> "", gpa |-> Null,
     field_of_study |-> "", work_experience_years |-> 0, languages |-> <<>>,
     has_financial_need |-> Null, is_refugee |-> FALSE, has_disability |-> FALSE,
     additional_info |-> ""]

\* the string setError receives, as a JSON value
ErrorMessage == [kind |-> "string", text |-> "Failed to analyze scholarships. Please try again."]

\* values of the fields that may be null: the number m / 10^k, a boolean
Number(m, k) == [kind |-> "number", mantissa |-> m, scale |-> k]
Boolean(b) == [kind |-> "boolean", value |-> b]

\* the infinities parseFloat yields
Infinity(negative) == [kind |-> "Infinity", negative |-> negative]

RECURSIVE Power10(_)
Power10(k) == IF k = 0 THEN 1 ELSE 10 * Power10(k - 1)

\* the number m / 10^k with the fewest decimals
RECURSIVE Decimal(_, _)
Decimal(m, k) ==
    IF m = 0 THEN Number(0, 0)
    ELSE IF k < 0 THEN Number(m * Power10(0 - k), 0)
    ELSE IF k > 0 /\ m % 10 = 0 THEN Decimal(m \div 10, k - 1)
    ELSE Number(m, k)

\* A natural number of any size is the sequence of its decimal digits, the
\* units first.  The digits of x * c + carry that x has room for, and the
\* carry out of them (x is multiplied by halves)
RECURSIVE TimesWithin(_, _, _)
TimesWithin(x, c, carry) ==
    IF x = <<>> THEN [digits |-> <<>>, carry |-> carry]
    ELSE IF Len(x) = 1
    THEN [digits |-> <<(x[1] * c + carry) % 10>>, carry |-> (x[1] * c + carry) \div 10]
    ELSE LET half == Len(x) \div 2
             low == TimesWithin(SubSeq(x, 1, half), c, carry)
             high == TimesWithin(SubSeq(x, half + 1, Len(x)), c, low.carry)
         IN  [digits |-> low.digits \o high.digits, carry |-> high.carry]

\* the digits of n, the units first
RECURSIVE DigitsOf(_)
DigitsOf(n) == IF n = 0 THEN <<>> ELSE <<n % 10>> \o DigitsOf(n \div 10)

\* the product of the number x by c, plus carry
BigTimes(x, c, carry) ==
    LET product == TimesWithin(x, c, carry)
    IN  product.digits \o DigitsOf(product.carry)

\* x multiplied n times by c (half of the times, then the other half)
RECURSIVE BigPower(_, _, _)
BigPower(x, c, n) ==
    IF n = 0 THEN x
    ELSE IF n = 1 THEN BigTimes(x, c, 0)
    ELSE LET half == BigPower(x, c, n \div 2)
         IN  IF half = <<>> THEN <<>> ELSE BigPower(half, c, n - n \div 2)

Reverse(list) == [i \in 1..Len(list) |-> list[Len(list) + 1 - i]]

\* digits without the zeros they end with
StripEnd(ds) == Reverse(StripStart(Reverse(ds)))

\* the number the first nine digits of ds write, ds having no leading zero
\* (zeros stand for the digits it lacks)
Leading(ds) ==
    DigitsValue([i \in 1..9 |-> IF i <= Len(ds) THEN ds[i] ELSE 0], 0)

\* the number the tenth to fifteenth digits of ds write
Following(ds) ==
    DigitsValue([i \in 1..6 |-> IF i + 9 <= Len(ds) THEN ds[i + 9] ELSE 0], 0)

\* a digit of the sequence ds after its first d is not zero
Rest(ds, d) == \E i \in (d + 1)..Len(ds) : ds[i] # 0

\* The doubles below 2^-1022 are the multiples n * 2^-1074.  The one
\* nearest to digits / 10^k (digits with the units last), ties to the even n
Multiple(digits, k) ==
    LET scaled == BigTimes(BigPower(Reverse(digits), 134217728, 39), 2097152, 0)
        quotient == DigitsValue(Reverse(Drop(scaled, k)), 0)
        first == IF k <= Len(scaled) THEN scaled[k] ELSE 0
        more == \E i \in 1..(IF k <= Len(scaled) THEN k - 1 ELSE Len(scaled)) : scaled[i] # 0
    IN  IF first > 5 \/ (first = 5 /\ (more \/ quotient % 2 = 1))
        THEN quotient + 1
        ELSE quotient

\* Number::toString of a double that is the rounding of every number from
\* low to high (the two included when inclusive) and of mid, the three
\* written with as many digits, the units last and 1075 decimals: the
\* decimal of the fewest digits that rounds to it, the nearest to mid of
\* those; d digits are tried
RECURSIVE Shortest(_, _, _, _, _)
Shortest(low, mid, high, inclusive, d) ==
    LET from == DigitsValue(SubSeq(low, 1, d), 0) +
                    (IF Rest(low, d) \/ ~inclusive THEN 1 ELSE 0)
        to == DigitsValue(SubSeq(high, 1, d), 0) -
                    (IF Rest(high, d) \/ inclusive THEN 0 ELSE 1)
        floor == DigitsValue(SubSeq(mid, 1, d), 0)
        up == mid[d + 1] > 5 \/ (mid[d + 1] = 5 /\ (Rest(mid, d + 1) \/ floor % 2 = 1))
        near == IF up THEN floor + 1 ELSE floor
    IN  IF from > to THEN Shortest(low, mid, high, inclusive, d + 1)
        ELSE Decimal(IF near < from THEN from ELSE IF near > to THEN to ELSE near,
                     1075 - (Len(high) - d))

\* the double n * 2^-1074, n > 0: it is the rounding of the numbers from
\* (2n - 1) * 2^-1075 to (2n + 1) * 2^-1075, that is (2n - 1) * 5^1075 / 10^1075
\* to (2n + 1) * 5^1075 / 10^1075
Subnormal(n) ==
    LET fives == BigTimes(BigPower(<<1>>, 48828125, 97), 390625, 0)
        high == Reverse(BigTimes(fives, 2 * n + 1, 0))
        Padded(x) == [i \in 1..Len(high) |->
                         IF i <= Len(high) - Len(x) THEN 0 ELSE x[Len(high) + 1 - i]]
    IN  Shortest(Padded(BigTimes(fives, 2 * n - 1, 0)), Padded(BigTimes(fives, 2 * n, 0)),
                 high, n % 2 = 0, 1)

\* the code units of "Infinity"
InfinityText == <<73, 110, 102, 105, 110, 105, 116, 121>>

\* text begins with the code units of start
StartsWith(text, start) ==
    Len(text) >= Len(start) /\ SubSeq(text, 1, Len(start)) = start

\* parseFloat: leading white space is skipped, then an optional sign, then
\* Infinity or digits, an optional point and digits, an optional exponent, up
\* to the first code unit that fits none of them; NaN when there is no
\* digit.  The result is the double nearest to the decimal read: 0 below
\* 2^-1075, an infinity from 2^1024 - 2^970 = 1.797693134862315807...e308
\* on, a multiple of 2^-1074 below 2.22507386e-308 (the doubles below
\* 2^-1021 are these multiples), and in between the double that the decimal
\* itself is the shortest name of when it has at most ExactDigits digits.
\* A longer decimal of that range is rounded by the code: it is outside
\* this definition, which has no value for it.
ParseFloat(text) ==
    LET trimmed == TrimStart(text)
        signed == trimmed # <<>> /\ Head(trimmed) \in Signs
        negative == signed /\ Head(trimmed) = 45
        body == IF signed THEN Tail(trimmed) ELSE trimmed
        int == DigitPrefix(body)
        afterInt == Drop(body, Len(int))
        point == afterInt # <<>> /\ Head(afterInt) = 46
        frac == IF point THEN DigitPrefix(Tail(afterInt)) ELSE <<>>
        afterFrac == IF point THEN Drop(afterInt, Len(frac) + 1) ELSE afterInt
        marked == afterFrac # <<>> /\ Head(afterFrac) \in {69, 101}
        expText == IF marked THEN Tail(afterFrac) ELSE <<>>
        expSigned == expText # <<>> /\ Head(expText) \in Signs
        expDigits == DigitPrefix(IF expSigned THEN Tail(expText) ELSE expText)
        exponent == IF expSigned /\ Head(expText) = 45 THEN 0 - DigitsValue(expDigits, 0)
                    ELSE DigitsValue(expDigits, 0)
        digits == StripEnd(StripStart(int \o frac))
        k == Len(frac) - exponent - (Len(StripStart(int \o frac)) - Len(digits))
        order == Len(digits) - k
        Signed(m) == IF negative THEN 0 - m ELSE m
    IN  IF StartsWith(body, InfinityText) THEN Infinity(negative)
        ELSE IF int = <<>> /\ frac = <<>> THEN NaN
        ELSE IF digits = <<>> THEN Number(0, 0)
        ELSE IF order > 309
                  \/ (order = 309 /\ (Leading(digits) > 179769313
                          \/ (Leading(digits) = 179769313 /\ Following(digits) >= 486232)))
             THEN Infinity(negative)
        ELSE IF order < -307 \/ (order = -307 /\ Leading(digits) < 222507386)
             THEN LET n == Multiple(digits, k)
                  IN  IF n = 0 THEN Number(0, 0)
                      ELSE LET double == Subnormal(n)
                           IN  Number(Signed(double.mantissa), double.scale)
        ELSE CASE Len(digits) <= ExactDigits -> Decimal(Signed(DigitsValue(digits, 0)), k)

\* e.target.value ? parseInt(e.target.value) : null
ParseIntOrNull(text) ==
    IF text = <<>> THEN Null
    ELSE IF IntegerPart(text).digits = <<>> THEN NaN
    ELSE Number(ParseInt(text), 0)

\* e.target.value ? parseFloat(e.target.value) : null
ParseFloatOrNull(text) == IF text = <<>> THEN Null ELSE ParseFloat(text)

\* split: the pieces of text between the separators, piece being the one
\* that is open
RECURSIVE Split(_, _, _)
Split(text, sep, piece) ==
    IF text = <<>> THEN <<piece>>
    ELSE IF Head(text) = sep THEN <<piece>> \o Split(Tail(text), sep, <<>>)
    ELSE Split(Tail(text), sep, Append(piece, Head(text)))

\* e.target.value.split(",").map(l => l.trim()).filter(Boolean): a string
\* of the list is the sequence of its code units
SplitLanguages(text) ==
    LET pieces == Split(text, 44, <<>>)
    IN  SelectSeq([i \in 1..Len(pieces) |-> Trim(pieces[i])], LAMBDA l : l # <<>>)

\* join: the strings of list with sep between them
RECURSIVE Join(_, _)
Join(list, sep) ==
    IF list = <<>> THEN ""
    ELSE IF Len(list) = 1 THEN list[1]
    ELSE list[1] \o sep \o Join(Tail(list), sep)

\* row[k] || d and row[k] ?? d for a column that is null (left out of the
\* record) or holds a value of d's type: the falsy values of those columns
\* ("", 0, false) are the defaults themselves
OrElse(row, k, d) == IF k \in DOMAIN row THEN row[k] ELSE d

\* loadedForm of loadProfile
LoadedForm(profile) ==
    LET circumstances == OrElse(profile, "circumstances", EmptyObject)
    IN  [nationality |-> OrElse(profile, "nationality", ""),
         age |-> Null,
         degree |-> OrElse(profile, "current_education_level", ""),
         target_degree |-> OrElse(profile, "target_degree", ""),
         gpa |-> OrElse(profile, "gpa", Null),
         field_of_study |-> Join(OrElse(profile, "target_fields", <<>>), ", "),
         work_experience_years |-> OrElse(profile, "work_experience_years", 0),
         languages |-> LET rows == OrElse(profile, "languages", <<>>)
                       IN  [i \in 1..Len(rows) |-> rows[i].language],
         has_financial_need |-> IF "financial_need" \in DOMAIN circumstances
                                THEN Boolean(circumstances.financial_need)
                                ELSE Null,
         is_refugee |-> OrElse(circumstances, "refugee", FALSE),
         has_disability |-> OrElse(circumstances, "disability", FALSE),
         additional_info |-> ""]

\* onChange of the nationality input (step 1)
AiSetNationality(v) ==
    /\ ~loadingProfile
    /\ step = 1
    /\ form' = [form EXCEPT !.nationality = v]
    /\ UNCHANGED <<results, loading, step, pending, lastForm, lastPrograms, lastOutcome, repeated, error, profileVars>>

\* onChange of the age input (step 1)
AiSetAge(text) ==
    /\ ~loadingProfile
    /\ step = 1
    /\ form' = [form EXCEPT !.age = ParseIntOrNull(text)]
    /\ UNCHANGED <<results, loading, step, pending, lastForm, lastPrograms, lastOutcome, repeated, error, profileVars>>

\* onChange of the field of study input (step 1)
AiSetFieldOfStudy(v) ==
    /\ ~loadingProfile
    /\ step = 1
    /\ form' = [form EXCEPT !.field_of_study = v]
    /\ UNCHANGED <<results, loading, step, pending, lastForm, lastPrograms, lastOutcome, repeated, error, profileVars>>

\* onChange of the work experience input (step 1)
AiSetWorkExperience(text) ==
    /\ ~loadingProfile
    /\ step = 1
    /\ form' = [form EXCEPT !.work_experience_years = ParseIntOrZero(text)]
    /\ UNCHANGED <<results, loading, step, pending, lastForm, lastPrograms, lastOutcome, repeated, error, profileVars>>

\* onClick of a current degree button (step 2)
AiSetDegree(d) ==
    /\ ~loadingProfile
    /\ step = 2
    /\ form' = [form EXCEPT !.degree = d]
    /\ UNCHANGED <<results, loading, step, pending, lastForm, lastPrograms, lastOutcome, repeated, error, profileVars>>

\* onClick of a target degree button (step 2)
AiSetTargetDegree(d) ==
    /\ ~loadingProfile
    /\ step = 2
    /\ form' = [form EXCEPT !.target_degree = d]
    /\ UNCHANGED <<results, loading, step, pending, lastForm, lastPrograms, lastOutcome, repeated, error, profileVars>>

\* onChange of the GPA input (step 2)
AiSetGpa(text) ==
    /\ ~loadingProfile
    /\ step = 2
    /\ form' = [form EXCEPT !.gpa = ParseFloatOrNull(text)]
    /\ UNCHANGED <<results, loading, step, pending, lastForm, lastPrograms, lastOutcome, repeated, error, profileVars>>

\* onChange of the languages input (step 2)
AiSetLanguages(text) ==
    /\ ~loadingProfile
    /\ step = 2
    /\ form' = [form EXCEPT !.languages = SplitLanguages(text)]
    /\ UNCHANGED <<results, loading, step, pending, lastForm, lastPrograms, lastOutcome, repeated, error, profileVars>>

\* onClick of a financial situation button (step 3)
AiSetFinancialNeed(v) ==
    /\ ~loadingProfile
    /\ step = 3
    /\ form' = [form EXCEPT !.has_financial_need = v]
    /\ UNCHANGED <<results, loading, step, pending, lastForm, lastPrograms, lastOutcome, repeated, error, profileVars>>

\* onChange of the refugee checkbox (step 3)
AiSetRefugee(checked) ==
    /\ ~loadingProfile
    /\ step = 3
    /\ form' = [form EXCEPT !.is_refugee = checked]
    /\ UNCHANGED <<results, loading, step, pending, lastForm, lastPrograms, lastOutcome, repeated, error, profileVars>>

\* onChange of the disability checkbox (step 3)
AiSetDisability(checked) ==
    /\ ~loadingProfile
    /\ step = 3
    /\ form' = [form EXCEPT !.has_disability = checked]
    /\ UNCHANGED <<results, loading, step, pending, lastForm, lastPrograms, lastOutcome, repeated, error, profileVars>>

\* onChange of the additional information textarea (step 3)
AiSetAdditionalInfo(v) ==
    /\ ~loadingProfile
    /\ step = 3
    /\ form' = [form EXCEPT !.additional_info = v]
    /\ UNCHANGED <<results, loading, step, pending, lastForm, lastPrograms, lastOutcome, repeated, error, profileVars>>

\* the step indicator, Continue and Back buttons of the three steps
AiSetStep(s) ==
    /\ ~loadingProfile
    /\ step' = s
    /\ UNCHANGED <<form, results, loading, pending, lastForm, lastPrograms, lastOutcome, repeated, error, profileVars>>

\* runEligibilityCheck up to the await of fetch
RunEligibilityCheck(profile) ==
    /\ loading' = TRUE
    /\ error' = Null
    /\ pending' = Append(pending, [profile |-> profile, awaiting |-> "fetch"])

\* handleSubmit of the AI page: the submit button is rendered on step 3 and
\* disabled while loading or while a required field is empty
AiHandleSubmit ==
    /\ ~loadingProfile
    /\ step = 3
    /\ ~loading
    /\ form.nationality # ""
    /\ form.degree # ""
    /\ form.target_degree # ""
    /\ Len(pending) < MaxInFlight
    /\ RunEligibilityCheck(form)
    /\ UNCHANGED <<form, results, step, lastForm, lastPrograms, lastOutcome, repeated, profileVars>>

\* list without its i-th element
Remove(list, i) == SubSeq(list, 1, i - 1) \o SubSeq(list, i + 1, Len(list))

\* the i-th request is answered with an ok status: the invocation resumes
\* after the await of fetch, passes the test of response.ok and suspends
\* again at the await of response.json()
ResponseOk(i) ==
    /\ pending[i].awaiting = "fetch"
    /\ pending' = [pending EXCEPT ![i].awaiting = "json"]
    /\ UNCHANGED <<form, results, loading, step, lastForm, lastPrograms, lastOutcome, repeated, error, profileVars>>

\* the body of the i-th answer parses: setResults(data), then the finally
CheckSucceeds(i, data) ==
    /\ pending[i].awaiting = "json"
    /\ results' = data
    /\ loading' = FALSE
    /\ pending' = Remove(pending, i)
    /\ lastPrograms' = data
    /\ lastOutcome' = "succeeded"
    /\ UNCHANGED <<form, step, error, lastForm, repeated, profileVars>>

\* what makes the try block throw: fetch rejects, the status is not ok, or
\* response.json() rejects
FailureCauses == {"network_error", "http_error", "json_error"}

\* the await at which each cause makes the invocation resume
AwaitOf(cause) == IF cause = "json_error" THEN "json" ELSE "fetch"

\* the try block of the i-th invocation throws: the catch sets the message,
\* then the finally
CheckFails(i, cause) ==
    /\ pending[i].awaiting = AwaitOf(cause)
    /\ error' = ErrorMessage
    /\ loading' = FALSE
    /\ pending' = Remove(pending, i)
    /\ lastPrograms' = <<>>
    /\ lastOutcome' = cause
    /\ UNCHANGED <<form, step, results, lastForm, repeated, profileVars>>

\* the effect of loadProfile as the page mounts: without a user it ends at
\* once, with one it suspends at the await of the query
LoadProfile ==
    /\ loadingProfile
    /\ lookups = 0
    /\ IF user = Null
       THEN loadingProfile' = FALSE /\ UNCHANGED lookups
       ELSE lookups' = lookups + 1 /\ UNCHANGED loadingProfile
    /\ UNCHANGED <<form, results, loading, step, pending, lastForm, lastPrograms, lastOutcome, repeated, error, user, fromOnboarding>>

\* useAuth hands the mounted page another user object (sign-in, sign-out,
\* refreshUser): the effect runs loadProfile again
UserChanges(u) ==
    /\ ~(loadingProfile /\ lookups = 0)
    /\ u # Null \/ user # Null
    /\ user' = u
    /\ IF u = Null
       THEN loadingProfile' = FALSE /\ UNCHANGED lookups
       ELSE lookups < MaxLookups /\ lookups' = lookups + 1 /\ UNCHANGED loadingProfile
    /\ UNCHANGED <<form, results, loading, step, pending, lastForm, lastPrograms, lastOutcome, repeated, error, fromOnboarding>>

\* a query of loadProfile returns an error or no row, or throws
ProfileMissing ==
    /\ lookups > 0
    /\ lookups' = lookups - 1
    /\ loadingProfile' = FALSE
    /\ UNCHANGED <<form, results, loading, step, pending, lastForm, lastPrograms, lastOutcome, repeated, error, user, fromOnboarding>>

\* a query of loadProfile returns the row: setForm(loadedForm); with
\* ?from=onboarding and a nationality runEligibilityCheck(loadedForm), which
\* tests neither loading nor the required fields; then the finally
ProfileArrives(profile) ==
    /\ lookups > 0
    /\ lookups' = lookups - 1
    /\ form' = LoadedForm(profile)
    /\ IF fromOnboarding /\ OrElse(profile, "nationality", "") # ""
       THEN Len(pending) < MaxInFlight /\ RunEligibilityCheck(LoadedForm(profile))
       ELSE UNCHANGED <<loading, error, pending>>
    /\ loadingProfile' = FALSE
    /\ UNCHANGED <<results, step, lastForm, lastPrograms, lastOutcome, repeated, user, fromOnboarding>>

\* bodies of the agent's answer (program names stand for ProgramMatch records)
EligibilityResults(e, l, m, u, n) ==
    [eligible |-> e, likely_eligible |-> l, maybe |-> m, unlikely |-> u, not_eligible |-> n,
     total_programs_analyzed |-> Len(e) + Len(l) + Len(m) + Len(u) + Len(n)]

AiResponses == { EligibilityResults(<<"A">>, <<>>, <<"D">>, <<>>, <<"B">>) }

Users == {Null, [id |-> "u1"]}

\* the code units of "English"
English == <<69, 110, 103, 108, 105, 115, 104>>

\* rows of academic_profiles: a complete one, and one with a nationality and
\* no current education level
StoredProfiles ==
    { [nationality |-> "Ghana", current_education_level |-> "BSc/BA", target_degree |-> "masters",
       gpa |-> Number(35, 1), target_fields |-> <<"Physics", "Maths">>,
       work_experience_years |-> 2, languages |-> <<[language |-> English]>>,
       circumstances |-> [financial_need |-> TRUE]],
      [nationality |-> "Kenya", target_degree |-> "masters", work_experience_years |-> 1] }

\* the fields no test of the submit button reads
OptionalFields ==
    {"age", "field_of_study", "work_experience_years", "gpa", "languages",
     "has_financial_need", "is_refugee", "has_disability", "additional_info"}

\* the optional fields of f that are not as the page starts them
Edited(f) == { k \in OptionalFields : f[k] # InitialProfile[k] }

\* the runs followed leave at most MaxEdits optional fields edited by hand
FewEdits == Cardinality(Edited(form')) <= MaxEdits

AiInit ==
    /\ form = InitialProfile
    /\ results = Null
    /\ loading = FALSE
    /\ step = 1
    /\ pending = <<>>
    /\ lastForm = InitialProfile
    /\ lastPrograms = <<>>
    /\ lastOutcome = "none"
    /\ repeated = FALSE
    /\ error = Null
    /\ user \in Users
    /\ loadingProfile = TRUE
    /\ fromOnboarding \in BOOLEAN
    /\ lookups = 0

\* the texts typed are "20", "-3", "3.5" and "En,\u00A0Fr,"
AiNext ==
    \/ LoadProfile
    \/ \E u \in Users : UserChanges(u)
    \/ ProfileMissing
    \/ \E profile \in StoredProfiles : ProfileArrives(profile)
    \/ \E v \in {"Ghana"} : AiSetNationality(v)
    \/ \E t \in { <<>>, <<50, 48>> } : AiSetAge(t) /\ FewEdits
    \/ \E v \in {"Physics"} : AiSetFieldOfStudy(v) /\ FewEdits
    \/ \E t \in { <<45, 51>> } : AiSetWorkExperience(t) /\ FewEdits
    \/ \E d \in {"BSc/BA"} : AiSetDegree(d)
    \/ \E d \in {"masters"} : AiSetTargetDegree(d)
    \/ \E t \in { <<51, 46, 53>> } : AiSetGpa(t) /\ FewEdits
    \/ \E t \in { <<69, 110, 44, 160, 70, 114, 44>> } : AiSetLanguages(t) /\ FewEdits
    \/ \E v \in {Boolean(FALSE), Null} : AiSetFinancialNeed(v) /\ FewEdits
    \/ \E checked \in BOOLEAN : AiSetRefugee(checked) /\ FewEdits
    \/ \E checked \in BOOLEAN : AiSetDisability(checked) /\ FewEdits
    \/ \E v \in {"first generation"} : AiSetAdditionalInfo(v) /\ FewEdits
    \/ \E s \in {1, 2, 3} : AiSetStep(s)
    \/ AiHandleSubmit
    \/ \E i \in 1..Len(pending) : ResponseOk(i)
    \/ \E i \in 1..Len(pending), data \in AiResponses : CheckSucceeds(i, data)
    \/ \E i \in 1..Len(pending), cause \in FailureCauses : CheckFails(i, cause)

\* the network is free never to answer: no fairness is assumed
AiSpec == AiInit /\ [][AiNext]_vars

(***************************************************************************)
(* Vocabulary of the properties.                                           *)
(***************************************************************************)
ProgramIndexes == 1..Len(lastPrograms)

Occurrences(list, p) == Cardinality({ i \in 1..Len(list) : list[i] = p })

InBucket(name, p) == Includes(results[name], p)

Passed(r) == RuleOutcome(lastForm, r) = "match"
Failed(r) == RuleOutcome(lastForm, r) = "fail"

AllRules(p, Q(_)) == \A j \in 1..Len(RulesOf(p)) : Q(RulesOf(p)[j])
SomeRule(p, Q(_)) == \E j \in 1..Len(RulesOf(p)) : Q(RulesOf(p)[j])

Recognised(r) ==
    <<r.rule_type, r.operator>> \in
        { <<"nationality", "in">>, <<"gpa", ">=">>, <<"degree", "in">>,
          <<"work_experience", ">=">> }
Unrecognised(r) == ~Recognised(r)

\* C1: after the evaluator loop of handleSubmit has finished, every fetched
\* program is in exactly one of eligible, maybe and not_eligible, exactly
\* once, and the three lengths add up to the number of programs.
Totality ==
    Published =>
        /\ Len(results.eligible) + Len(results.maybe) + Len(results.not_eligible)
               = Len(lastPrograms)
        /\ \A i \in ProgramIndexes :
               Occurrences(results.eligible, lastPrograms[i])
                 + Occurrences(results.maybe, lastPrograms[i])
                 + Occurrences(results.not_eligible, lastPrograms[i]) = 1

TotalityWitness ==
    /\ Published
    /\ Len(lastPrograms) = 2
    /\ Len(RulesOf(lastPrograms[1])) = 0
    /\ Len(results.maybe) = 1
    /\ Len(results.not_eligible) = 1

\* C2: a program with no eligibility rules (an empty list or no list at
\* all) is in maybe and in neither eligible nor not_eligible, whatever the
\* profile.
NoRulesIsMaybe ==
    Published =>
        \A i \in ProgramIndexes :
            Len(RulesOf(lastPrograms[i])) = 0 =>
                /\ InBucket("maybe", lastPrograms[i])
                /\ ~InBucket("eligible", lastPrograms[i])
                /\ ~InBucket("not_eligible", lastPrograms[i])

NoRulesIsMaybeWitness ==
    /\ Published
    /\ lastPrograms = <<WithId(RowWithoutRules, 1)>>
    /\ results.maybe = lastPrograms
    /\ lastForm.nationality = "Ghana"

\* C3: a program is in eligible exactly when it has at least one rule and
\* every one of its rules passed.
EligibleIffAllPassed ==
    Published =>
        \A i \in ProgramIndexes :
            InBucket("eligible", lastPrograms[i])
                <=> /\ Len(RulesOf(lastPrograms[i])) >= 1
                    /\ AllRules(lastPrograms[i], Passed)

\* scenario 1: nationality and gpa both pass
EligibleIffAllPassedWitness ==
    /\ Published
    /\ lastForm.nationality = "Ghana"
    /\ lastForm.gpa_band = "3.5_4.0"
    /\ \E i \in ProgramIndexes :
           /\ RulesOf(lastPrograms[i]) =
                  <<Rule("nationality", "in", Countries(<<"Ghana", "Nigeria">>)),
                    Rule("gpa", ">=", Min(350))>>
           /\ InBucket("eligible", lastPrograms[i])

\* C4: a program is in not_eligible exactly when it has at least one rule
\* and every one of its rules failed.
NotEligibleIffAllFailed ==
    Published =>
        \A i \in ProgramIndexes :
            InBucket("not_eligible", lastPrograms[i])
                <=> /\ Len(RulesOf(lastPrograms[i])) >= 1
                    /\ AllRules(lastPrograms[i], Failed)

\* scenario 2: the only rule, nationality in Kenya, fails
NotEligibleIffAllFailedWitness ==
    /\ Published
    /\ lastForm.nationality = "Ghana"
    /\ \E i \in ProgramIndexes :
           /\ RulesOf(lastPrograms[i]) = <<Rule("nationality", "in", Countries(<<"Kenya">>))>>
           /\ InBucket("not_eligible", lastPrograms[i])

\* C5: a program with rules is in maybe exactly when one of its rules
\* passed and one failed, and a program in maybe either has no rules or has
\* such a mix.
MaybeIffMixed ==
    Published =>
        \A i \in ProgramIndexes :
            /\ Len(RulesOf(lastPrograms[i])) >= 1 =>
                   (InBucket("maybe", lastPrograms[i])
                        <=> /\ SomeRule(lastPrograms[i], Passed)
                            /\ SomeRule(lastPrograms[i], Failed))
            /\ InBucket("maybe", lastPrograms[i]) =>
                   \/ Len(RulesOf(lastPrograms[i])) = 0
                   \/ /\ SomeRule(lastPrograms[i], Passed)
                      /\ SomeRule(lastPrograms[i], Failed)

\* scenario 3: nationality passes, work experience 2 < 5 fails
MaybeIffMixedWitness ==
    /\ Published
    /\ lastForm.nationality = "Ghana"
    /\ lastForm.work_experience_years = 2
    /\ \E i \in ProgramIndexes :
           /\ RulesOf(lastPrograms[i]) =
                  <<Rule("nationality", "in", Countries(<<"Ghana">>)),
                    Rule("work_experience", ">=", Years(5))>>
           /\ InBucket("maybe", lastPrograms[i])

NumberOf(p, Q(_)) == Cardinality({ j \in 1..Len(RulesOf(p)) : Q(RulesOf(p)[j]) })

Tally(p) == CountRules(lastForm, RulesOf(p), [matches |-> 0, fails |-> 0, thrown |-> FALSE])

\* C6: a rule whose (rule_type, operator) pair is none of the four
\* recognised ones counts as a match and never as a fail, for every profile
\* and whatever its payload, and a program with rules that are all of that
\* kind is eligible.
UnknownRulePasses ==
    Finished =>
        \A i \in ProgramIndexes :
            LET p == lastPrograms[i] IN
            /\ AllRules(p, Unrecognised) => ~Tally(p).thrown
            /\ ~Tally(p).thrown =>
                   /\ Tally(p).matches >= NumberOf(p, Unrecognised)
                   /\ Tally(p).fails <= NumberOf(p, Recognised)
            /\ (Published /\ Len(RulesOf(p)) >= 1 /\ AllRules(p, Unrecognised))
                   => InBucket("eligible", p)

\* scenario 5: the only rule is a language rule
UnknownRulePassesWitness ==
    /\ Published
    /\ lastForm = InitialForm
    /\ \E i \in ProgramIndexes :
           /\ RulesOf(lastPrograms[i]) = <<Rule("language", "=", Null)>>
           /\ InBucket("eligible", lastPrograms[i])

\* the property a recognised comparator reads from the payload
ExpectedKey(r) ==
    IF r.rule_type = "nationality" THEN "countries"
    ELSE IF r.rule_type = "gpa" THEN "min"
    ELSE IF r.rule_type = "degree" THEN "degrees"
    ELSE "years"

Malformed(r) == Recognised(r) /\ Readable(r.value) /\ ~HasProp(r.value, ExpectedKey(r))

PassedOrMalformed(r) == Passed(r) \/ Malformed(r)

CompleteProfile ==
    lastForm.nationality # "" /\ lastForm.degree # "" /\ lastForm.gpa_band # ""

\* C7: a recognised rule whose payload lacks the expected property counts
\* as a match and not as a fail, so a program whose other rules all passed
\* is eligible (stated for profiles with no empty field, where no
\* comparator fails for want of a profile value).
MalformedPayloadPasses ==
    (Published /\ CompleteProfile) =>
        \A i \in ProgramIndexes :
            LET p == lastPrograms[i] IN
            /\ AllRules(p, LAMBDA r : Malformed(r) => Passed(r))
            /\ Tally(p).fails <= NumberOf(p, LAMBDA r : ~Malformed(r))
            /\ (Len(RulesOf(p)) >= 1 /\ AllRules(p, PassedOrMalformed))
                   => InBucket("eligible", p)

Unreadable(r) == Recognised(r) /\ ~Readable(r.value)

\* C8: a rule with an unreadable payload never aborts the batch: once the
\* fetch has returned several programs, every program is classified,
\* results holds the classification and loading is false.
UnreadablePayloadIsolated ==
    (Finished /\ Len(lastPrograms) >= 2) =>
        /\ Published
        /\ loading = FALSE
        /\ results # Null
        /\ \A i \in ProgramIndexes :
               \E name \in {"eligible", "maybe", "not_eligible"} :
                   InBucket(name, lastPrograms[i])

ReadsEmptyField(r) ==
    \/ r.rule_type = "nationality" /\ r.operator = "in" /\ lastForm.nationality = ""
    \/ r.rule_type = "gpa" /\ r.operator = ">=" /\ lastForm.gpa_band = ""
    \/ r.rule_type = "degree" /\ r.operator = "in" /\ lastForm.degree = ""

ReadsEmptyFieldReadably(r) == ReadsEmptyField(r) /\ Readable(r.value)

\* C9: an empty nationality, degree or gpa_band never raises: every
\* recognised rule that reads the empty field counts as a fail, whatever
\* its payload lists (so its program is not eligible, and is not_eligible
\* when all its rules are of that kind), the only evaluation that does not
\* complete is one that met an unreadable rule payload, and a completed one
\* has classified every program.
EmptyFieldFails ==
    Finished =>
        /\ \A i \in ProgramIndexes :
               LET p == lastPrograms[i] IN
               /\ AllRules(p, LAMBDA r : ReadsEmptyFieldReadably(r) => Failed(r))
               /\ ~Tally(p).thrown => Tally(p).fails >= NumberOf(p, ReadsEmptyFieldReadably)
               /\ (Published /\ SomeRule(p, ReadsEmptyFieldReadably))
                      => ~InBucket("eligible", p)
               /\ (Published /\ Len(RulesOf(p)) >= 1 /\ AllRules(p, ReadsEmptyFieldReadably))
                      => InBucket("not_eligible", p)
        /\ lastOutcome = "thrown" => \E i \in ProgramIndexes : SomeRule(lastPrograms[i], Unreadable)
        /\ Published =>
               \A i \in ProgramIndexes :
                   \E name \in {"eligible", "maybe", "not_eligible"} :
                       InBucket(name, lastPrograms[i])

\* the table of band midpoints, in hundredths
BandMidpoint(band) ==
    CASE band = "below_2.5" -> 200
      [] band = "2.5_3.0" -> 275
      [] band = "3.0_3.5" -> 325
      [] band = "3.5_4.0" -> 375
      [] band = "above_4.0" -> 400

GpaRuleWithMin(r) == r.rule_type = "gpa" /\ r.operator = ">=" /\ HasProp(r.value, "min")

\* C10: for a profile with one of the five bands, a gpa >= rule with a min
\* passes exactly when the midpoint of the band is at least min, equality
\* included; a program with that single rule is eligible when it passes
\* and not_eligible when it does not.
GpaGeMidpoint ==
    (Finished /\ lastForm.gpa_band \in GpaButtons) =>
        \A i \in ProgramIndexes :
            LET p == lastPrograms[i] IN
            /\ AllRules(p, LAMBDA r : GpaRuleWithMin(r) =>
                   (Passed(r) <=> BandMidpoint(lastForm.gpa_band) >= r.value.min))
            /\ (Published /\ Len(RulesOf(p)) = 1 /\ AllRules(p, GpaRuleWithMin)) =>
                   IF BandMidpoint(lastForm.gpa_band) >= RulesOf(p)[1].value.min
                   THEN InBucket("eligible", p)
                   ELSE InBucket("not_eligible", p)

\* the boundary: the midpoint 3.25 meets min 3.25
GpaGeMidpointWitness ==
    /\ Published
    /\ lastForm.gpa_band = "3.0_3.5"
    /\ lastPrograms = <<WithId(Row(<<Rule("gpa", ">=", Min(325))>>), 1)>>
    /\ results.eligible = lastPrograms

OtherGpaOperator(r) == r.rule_type = "gpa" /\ r.operator \in {">", "<=", "<", "between"}

\* the comparison a gpa rule of another operator asks of the GPA g
GpaSatisfies(g, r) ==
    CASE r.operator = ">" -> g > r.value.min
      [] r.operator = "<=" -> g <= r.value.max
      [] r.operator = "<" -> g < r.value.max
      [] r.operator = "between" -> r.value.min <= g /\ g <= r.value.max

\* C11: a gpa rule with operator >, <=, < or between passes exactly when
\* the profile's GPA satisfies that comparison with the rule's bounds, and
\* fails otherwise, so a program with that single rule is eligible in the
\* first case and not_eligible in the second.
OtherGpaOperatorsCompare ==
    (Published /\ lastForm.gpa_band \in GpaButtons) =>
        \A i \in ProgramIndexes :
            LET p == lastPrograms[i] IN
            /\ AllRules(p, LAMBDA r : OtherGpaOperator(r) =>
                   IF GpaSatisfies(BandMidpoint(lastForm.gpa_band), r)
                   THEN Passed(r) ELSE Failed(r))
            /\ (Len(RulesOf(p)) = 1 /\ AllRules(p, OtherGpaOperator)) =>
                   IF GpaSatisfies(BandMidpoint(lastForm.gpa_band), RulesOf(p)[1])
                   THEN InBucket("eligible", p)
                   ELSE InBucket("not_eligible", p)

NationalityRule(r) == r.rule_type = "nationality" /\ r.operator = "in" /\ Readable(r.value)

ListsNationality(r) ==
    /\ HasProp(r.value, "countries")
    /\ \E k \in 1..Len(r.value.countries) : r.value.countries[k] = lastForm.nationality

\* C12: a nationality in rule passes exactly when value.countries holds a
\* string equal to the profile's nationality, character for character, and
\* counts as a fail otherwise; a program with that single rule is eligible
\* in the first case and not_eligible in the second.
NationalityInExact ==
    Finished =>
        \A i \in ProgramIndexes :
            LET p == lastPrograms[i] IN
            /\ AllRules(p, LAMBDA r : NationalityRule(r) =>
                   IF ListsNationality(r) THEN Passed(r) ELSE Failed(r))
            /\ (Published /\ Len(RulesOf(p)) = 1 /\ AllRules(p, NationalityRule)) =>
                   IF ListsNationality(RulesOf(p)[1])
                   THEN InBucket("eligible", p)
                   ELSE InBucket("not_eligible", p)

\* Ghana is not in a list that holds ghana and GHANA
NationalityInExactWitness ==
    /\ Published
    /\ lastForm.nationality = "Ghana"
    /\ lastPrograms = <<WithId(Row(<<Rule("nationality", "in", Countries(<<"ghana", "GHANA">>))>>), 1)>>
    /\ results.not_eligible = lastPrograms

DegreeRule(r) == r.rule_type = "degree" /\ r.operator = "in" /\ Readable(r.value)

ListsDegree(r) ==
    /\ HasProp(r.value, "degrees")
    /\ \E k \in 1..Len(r.value.degrees) : r.value.degrees[k] = lastForm.degree

\* C13: a degree in rule passes exactly when value.degrees holds a label
\* equal to the profile's degree, and counts as a fail otherwise; a program
\* with that single rule is eligible in the first case and not_eligible in
\* the second.
DegreeInExact ==
    Finished =>
        \A i \in ProgramIndexes :
            LET p == lastPrograms[i] IN
            /\ AllRules(p, LAMBDA r : DegreeRule(r) =>
                   IF ListsDegree(r) THEN Passed(r) ELSE Failed(r))
            /\ (Published /\ Len(RulesOf(p)) = 1 /\ AllRules(p, DegreeRule)) =>
                   IF ListsDegree(RulesOf(p)[1])
                   THEN InBucket("eligible", p)
                   ELSE InBucket("not_eligible", p)

DegreeInExactWitness ==
    /\ Published
    /\ lastForm.degree = "BSc"
    /\ \E i \in ProgramIndexes :
           /\ RulesOf(lastPrograms[i]) = <<Rule("degree", "in", Degrees(<<"BSc", "MSc">>))>>
           /\ InBucket("eligible", lastPrograms[i])

WorkExperienceRule(r) ==
    r.rule_type = "work_experience" /\ r.operator = ">=" /\ HasProp(r.value, "years")

\* C14: a work_experience >= rule passes exactly when the profile's
\* work_experience_years is at least value.years, equality included, and
\* counts as a fail otherwise; a program with that single rule is eligible
\* in the first case and not_eligible in the second.
WorkExperienceGeYears ==
    Finished =>
        \A i \in ProgramIndexes :
            LET p == lastPrograms[i] IN
            /\ AllRules(p, LAMBDA r : WorkExperienceRule(r) =>
                   IF lastForm.work_experience_years >= r.value.years
                   THEN Passed(r) ELSE Failed(r))
            /\ (Published /\ Len(RulesOf(p)) = 1 /\ AllRules(p, WorkExperienceRule)) =>
                   IF lastForm.work_experience_years >= RulesOf(p)[1].value.years
                   THEN InBucket("eligible", p)
                   ELSE InBucket("not_eligible", p)

\* the boundary: 5 years meet years 5
WorkExperienceGeYearsWitness ==
    /\ Published
    /\ lastForm.work_experience_years = 5
    /\ lastPrograms = <<WithId(Row(<<Rule("work_experience", ">=", Years(5))>>), 1)>>
    /\ results.eligible = lastPrograms

BucketNames == {"eligible", "maybe", "not_eligible"}

\* C15: the bucket of a program depends on the profile and on its own rules
\* only: a program that is classified when it is the whole catalog lands in
\* the same bucket whatever other programs the catalog holds, before or
\* after it.
ProgramBucketIndependent ==
    Finished =>
        \A i \in ProgramIndexes :
            LET p == lastPrograms[i]
                alone == Evaluate(lastForm, <<p>>) IN
            ~alone.thrown =>
                /\ Published
                /\ \A name \in BucketNames : InBucket(name, p) <=> Includes(alone[name], p)

\* the three buckets of an evaluation
BucketsOf(b) == [eligible |-> b.eligible, maybe |-> b.maybe, not_eligible |-> b.not_eligible]

\* an invocation resumes with the form and the programs of the one before it
ResumesWithSameInputs ==
    /\ Finished
    /\ pending # <<>>
    /\ pending' = Tail(pending)
    /\ lastOutcome' \in {"published", "thrown"}
    /\ lastForm' = lastForm
    /\ lastPrograms' = lastPrograms

\* C16: the published buckets are those of the profile and the program list
\* of the invocation alone, whatever was submitted, edited or published
\* before it, and an evaluation that follows one with the same profile and
\* programs ends the same way with the same buckets.
Determinism ==
    /\ [](Published => results = BucketsOf(Evaluate(lastForm, lastPrograms)))
    /\ [][ResumesWithSameInputs => (lastOutcome' = lastOutcome /\ results' = results)]_vars

DeterminismWitness ==
    /\ repeated
    /\ Published
    /\ Len(lastPrograms) = 2
    /\ Len(results.eligible) = 1
    /\ Len(results.maybe) = 1

\* C17: evaluating again, with the same profile, the programs of one
\* published bucket alone puts all of them in that bucket, in the same
\* order, and none in the other two.
Idempotence ==
    Published =>
        \A name \in BucketNames :
            LET again == Evaluate(lastForm, results[name]) IN
            /\ ~again.thrown
            /\ again[name] = results[name]
            /\ \A other \in BucketNames \ {name} : again[other] = <<>>

IdempotenceWitness ==
    /\ Published
    /\ Len(lastPrograms) = 2
    /\ Len(results.maybe) = 1
    /\ Len(RulesOf(results.maybe[1])) = 2
    /\ Len(results.not_eligible) = 1
    /\ Evaluate(lastForm, results.maybe).maybe = results.maybe

\* a step of handleSubmit: an invocation suspends at the await or resumes
HandleSubmitStep == pending' # pending

\* C18: handleSubmit writes results and loading only: no step of it changes
\* the form (or the step shown), and the programs in the published buckets
\* are the fetched programs, rules included, as they were fetched.
EvaluationFrame ==
    /\ [][HandleSubmitStep => (form' = form /\ step' = step)]_vars
    /\ [](Published =>
            \A name \in BucketNames :
                \A k \in 1..Len(results[name]) :
                    \E i \in ProgramIndexes : results[name][k] = lastPrograms[i])

EvaluationFrameWitness ==
    /\ Published
    /\ form = lastForm
    /\ form.nationality = "Ghana"
    /\ form.gpa_band = "3.5_4.0"
    /\ Len(results.eligible) = 1
    /\ results.eligible[1] = lastPrograms[2]

Fields == {"", "Physics", "Law"}
Confidences == {"high", "medium", "inferred"}

\* the same program with every rule at confidence c
WithConfidence(p, c) ==
    IF "eligibility_rules" \in DOMAIN p
    THEN [p EXCEPT !.eligibility_rules =
             [j \in 1..Len(p.eligibility_rules) |-> [p.eligibility_rules[j] EXCEPT !.confidence = c]]]
    ELSE p

AllWithConfidence(programs, c) == [i \in 1..Len(programs) |-> WithConfidence(programs[i], c)]

Ids(programs) == [i \in 1..Len(programs) |-> programs[i].id]

\* C19: an evaluation that differs from the one made in the profile's field
\* or in the confidence of the rules (or both) ends the same way and puts
\* the same programs in the same buckets.
AdvisoryInputsIgnored ==
    Finished =>
        \A v \in Fields : \A c \in Confidences :
            LET other == Evaluate([lastForm EXCEPT !.field = v],
                                  AllWithConfidence(lastPrograms, c)) IN
            /\ other.thrown <=> lastOutcome = "thrown"
            /\ Published =>
                   \A name \in BucketNames : Ids(other[name]) = Ids(results[name])

AdvisoryInputsIgnoredWitness ==
    /\ Published
    /\ Len(lastPrograms) = 2
    /\ Len(results.not_eligible) = 1
    /\ Len(results.maybe) = 1
    /\ Len(RulesOf(results.maybe[1])) = 2
    /\ LET other == Evaluate([lastForm EXCEPT !.field = "Physics"],
                             AllWithConfidence(lastPrograms, "inferred")) IN
           /\ Ids(other.not_eligible) = Ids(results.not_eligible)
           /\ Ids(other.maybe) = Ids(results.maybe)

Statuses == {"active", "paused", "discontinued", "unknown"}

AllWithStatus(programs, status) == [i \in 1..Len(programs) |-> SetStatus(programs[i], status)]

\* C20: the evaluator is handed the active rows of the programs table only
\* and classifies what it is handed without reading status: every program
\* in a published bucket is active, a row of the table is in some bucket
\* exactly when it is active, and the same programs under any other status
\* would land in the same buckets.  (A table of active rows only is its own
\* query result, so the tables to consider are the mixed ones and the
\* fetched list itself.)
OnlyActiveClassified ==
    Published =>
        /\ \A name \in BucketNames :
               \A k \in 1..Len(results[name]) : results[name][k].status = "active"
        /\ \A table \in MixedTables \cup {lastPrograms} :
               lastPrograms = ProgramsQuery(table) =>
                   \A i \in 1..Len(table) :
                       table[i].status = "active"
                           <=> \E name \in BucketNames : InBucket(name, table[i])
        /\ \A status \in Statuses :
               LET other == Evaluate(lastForm, AllWithStatus(lastPrograms, status)) IN
               \A name \in BucketNames : Ids(other[name]) = Ids(results[name])

\* rows 2 and 4 of a table whose rows 1 and 3 are not active
OnlyActiveClassifiedWitness ==
    /\ Published
    /\ Ids(lastPrograms) = <<2, 4>>
    /\ Ids(results.maybe) = <<4>>
    /\ Ids(results.eligible) = <<2>>

\* C26: for a program with rules, every rule has incremented exactly one
\* of matches and fails, so at the bucket assignment the two add up to the
\* number of rules; a program is in not_eligible only with matches = 0 and
\* fails >= 1, and matches = 0 with fails = 0 does not occur.
RuleCountersAddUp ==
    Published =>
        \A i \in ProgramIndexes :
            LET p == lastPrograms[i] IN
            Len(RulesOf(p)) >= 1 =>
                /\ Tally(p).matches + Tally(p).fails = Len(RulesOf(p))
                /\ Tally(p).matches = NumberOf(p, Passed)
                /\ Tally(p).fails = NumberOf(p, Failed)
                /\ InBucket("not_eligible", p) => (Tally(p).matches = 0 /\ Tally(p).fails >= 1)
                /\ ~(Tally(p).matches = 0 /\ Tally(p).fails = 0)

\* two rules, both failed
RuleCountersAddUpWitness ==
    /\ Published
    /\ \E i \in ProgramIndexes :
           /\ Len(RulesOf(lastPrograms[i])) = 2
           /\ Tally(lastPrograms[i]).fails = 2
           /\ InBucket("not_eligible", lastPrograms[i])

\* C27: each bucket holds the fetched programs that landed in it in the
\* order of the fetched list, each of them once.
StablePartition ==
    Published =>
        \A name \in BucketNames :
            /\ results[name] = SelectSeq(lastPrograms, LAMBDA p : InBucket(name, p))
            /\ \A k \in 1..Len(results[name]) :
                   Occurrences(results[name], results[name][k]) = 1

\* two programs with different rules in one bucket
StablePartitionWitness ==
    /\ Published
    /\ Len(lastPrograms) = 2
    /\ RulesOf(lastPrograms[1]) # RulesOf(lastPrograms[2])
    /\ results.eligible = lastPrograms

GpaRuleWithoutMin(r) ==
    r.rule_type = "gpa" /\ r.operator = ">=" /\ Readable(r.value) /\ ~HasProp(r.value, "min")

WorkExperienceRuleWithoutYears(r) ==
    /\ r.rule_type = "work_experience" /\ r.operator = ">="
    /\ Readable(r.value) /\ ~HasProp(r.value, "years")

\* C28: a missing threshold counts as 0: a gpa >= rule without min passes
\* exactly when the profile's band is one of the five known ones (and fails
\* on an empty band), a work_experience >= rule without years passes for
\* every number of years from 0 on; a program with that single rule is
\* eligible when it passes and not_eligible when it fails.
MissingThresholdIsZero ==
    Finished =>
        \A i \in ProgramIndexes :
            LET p == lastPrograms[i] IN
            /\ AllRules(p, LAMBDA r : GpaRuleWithoutMin(r) =>
                   IF lastForm.gpa_band \in GpaButtons THEN Passed(r) ELSE Failed(r))
            /\ AllRules(p, LAMBDA r :
                   (WorkExperienceRuleWithoutYears(r) /\ lastForm.work_experience_years >= 0)
                       => Passed(r))
            /\ (Published /\ Len(RulesOf(p)) = 1 /\ AllRules(p, GpaRuleWithoutMin)) =>
                   IF lastForm.gpa_band \in GpaButtons
                   THEN InBucket("eligible", p)
                   ELSE InBucket("not_eligible", p)
            /\ (Published /\ Len(RulesOf(p)) = 1 /\ AllRules(p, WorkExperienceRuleWithoutYears)
                  /\ lastForm.work_experience_years >= 0)
                   => InBucket("eligible", p)

\* the lowest band meets a gpa rule without min
MissingThresholdIsZeroWitness ==
    /\ Published
    /\ lastForm.gpa_band = "below_2.5"
    /\ lastPrograms = <<WithId(Row(<<Rule("gpa", ">=", EmptyObject)>>), 1)>>
    /\ results.eligible = lastPrograms

\* the invocation at the head resumes on a fetch that yielded no data
ResumesWithoutData ==
    /\ pending # <<>>
    /\ pending' = Tail(pending)
    /\ lastOutcome' = "nodata"

\* C21: when the catalog fetch yields no data, handleSubmit classifies
\* nothing: results keeps the value it had (null or the classification
\* published before) and loading is set back to false.
NullFetchLeavesResults ==
    [][ResumesWithoutData => (results' = results /\ loading' = FALSE)]_vars

\* a classification published earlier survives a later fetch without data
NullFetchLeavesResultsWitness ==
    /\ lastOutcome = "nodata"
    /\ pending = <<>>
    /\ ~loading
    /\ results # Null
    /\ Len(results.eligible) = 1
    /\ Len(results.maybe) = 1

\* the last invocation ended on a failed catalog fetch
FetchFailed == lastOutcome \in {"nodata", "rejected"}

\* C22: however the catalog fetch failed (no data or a rejected request),
\* once the invocation has ended loading is false again, so that the submit
\* control is enabled and the user can retry.
FetchFailureAllowsRetry ==
    (FetchFailed /\ pending = <<>>) => ~loading

\* every program of the list is in exactly one bucket of b, once, and the
\* buckets hold nothing else
CompleteClassification(b, programs) ==
    /\ Len(b.eligible) + Len(b.maybe) + Len(b.not_eligible) = Len(programs)
    /\ \A i \in 1..Len(programs) :
           Occurrences(b.eligible, programs[i]) + Occurrences(b.maybe, programs[i])
             + Occurrences(b.not_eligible, programs[i]) = 1

\* results changes only in the step that resumes an invocation on its
\* fetched list, and then to a complete classification of the whole list
\* (never to buckets filled in part)
PublishesWhole ==
    results' # results =>
        /\ pending # <<>>
        /\ pending' = Tail(pending)
        /\ lastOutcome' = "published"
        /\ CompleteClassification(results', lastPrograms')

\* the step has set results to the classification of the fetched list
SetsResults ==
    /\ lastOutcome' = "published"
    /\ results' # Null
    /\ CompleteClassification(results', lastPrograms')

\* C25: results is at every moment its prior value or a complete
\* classification of the whole fetched list, and loading becomes false
\* only in a step that has set results.
AtomicPublicationAlways ==
    /\ [][PublishesWhole]_vars
    /\ [][(loading /\ ~loading') => SetsResults]_vars

\* C25, amended: results is at every moment its prior value or a complete
\* classification of the whole fetched list, and loading becomes false
\* either in a step that has set results or in the step that resumes an
\* invocation on null data, which leaves results as it was.
AtomicPublication ==
    /\ [][PublishesWhole]_vars
    /\ [][(loading /\ ~loading') =>
             \/ SetsResults
             \/ lastOutcome' = "nodata" /\ results' = results]_vars

\* the loops stopped on the second program of a list: results still holds
\* the two programs published before and not the first program alone
AtomicPublicationWitness ==
    /\ lastOutcome = "thrown"
    /\ Len(lastPrograms) = 2
    /\ Evaluate(lastForm, <<lastPrograms[1]>>).eligible = <<lastPrograms[1]>>
    /\ results # Null
    /\ Len(results.eligible) + Len(results.maybe) + Len(results.not_eligible) = 2

\* the forms the band buttons can produce from the initial form
OverlapForms == { [InitialForm EXCEPT !.gpa_band = g] : g \in OverlapBands \cup {""} }

\* the buckets an invocation can publish
Outputs ==
    { BucketsOf(Evaluate(f, ProgramsQuery(table))) :
        f \in OverlapForms, table \in { t \in PageResponses :
            \A g \in OverlapForms : ~Evaluate(g, ProgramsQuery(t)).thrown } }

\* C23: with several invocations of handleSubmit in flight at once, the
\* one that resumes publishes the buckets of the form it captured and the
\* list it received and of nothing else, and results is at every moment
\* null or the whole output of one invocation, never programs of two.
OverlapIsolated ==
    /\ [][results' # results =>
             /\ pending # <<>>
             /\ pending' = Tail(pending)
             /\ results' = BucketsOf(Evaluate(Head(pending), lastPrograms'))]_vars
    /\ [](results = Null \/ results \in Outputs)

\* an invocation has published while another, submitted with another form
\* before that publication, is still in flight
OverlapIsolatedWitness ==
    /\ Published
    /\ ~loading
    /\ Len(pending) = 1
    /\ pending[1] # lastForm
    /\ results = BucketsOf(Evaluate(lastForm, lastPrograms))
    /\ results # BucketsOf(Evaluate(pending[1], lastPrograms))

AiFailed == lastOutcome \in FailureCauses

\* results is a classification of the rule evaluator
RuleBased(b) == DOMAIN b = {"eligible", "maybe", "not_eligible"}

\* C24: when the request to the agent has failed, the page falls back on
\* the rule evaluator: the user ends with a classification of the programs
\* into eligible, maybe and not_eligible, not without results.
FallbackOnFailure ==
    (AiFailed /\ pending = <<>>) => (results # Null /\ RuleBased(results))

\* C29: at most one invocation of handleSubmit is in flight, and loading is
\* true exactly while one is.
SingleFlight ==
    /\ Len(pending) <= 1
    /\ loading <=> pending # <<>>

\* a step in which runEligibilityCheck starts, and one in which it ends
CheckStarts == Len(pending') > Len(pending)
CheckEnds == Len(pending') < Len(pending)

\* C30: runEligibilityCheck clears error and sets loading when it starts;
\* however the request ends, loading is false afterwards; a failure sets
\* the error message and leaves results as it was; a success replaces
\* results by the answer and leaves error null.
EligibilityCheckOutcome ==
    /\ [][CheckStarts => (error' = Null /\ loading')]_vars
    /\ [][CheckEnds => ~loading']_vars
    /\ [][(CheckEnds /\ lastOutcome' \in FailureCauses) =>
             (error' = ErrorMessage /\ results' = results)]_vars
    /\ [][(CheckEnds /\ lastOutcome' = "succeeded") =>
             (results' = lastPrograms' /\ results' \in AiResponses /\ error' = Null)]_vars

====
